---------------------------- MODULE Spec2Model ----------------------------
(***************************************************************************)
(* Model of AppComponent (src/src/app/app.ts): the chat controller with    *)
(* its six signals, the write-through patch installed by ngOnInit, the UI  *)
(* event handlers, and the three provider adapters.                        *)
(*                                                                         *)
(* Text is a sequence of atoms (one-character or one-word strings), so    *)
(* that trim, split and JSON (de)serialisation are computed, not assumed.  *)
(* One action is one browser task: a handler runs to completion, together  *)
(* with the microtasks it queues.  An adapter that throws before calling   *)
(* fetch settles in the microtask checkpoint of the onSend task itself, so *)
(* that case is one step; an adapter that called fetch settles in a later  *)
(* task (action Settle).  scrollToBottom only touches the DOM and is not   *)
(* part of the state.                                                      *)
(***************************************************************************)
EXTENDS Integers, Sequences, FiniteSets, TLC

\* Longest conversation explored: a non-blank send is taken only while the
\* conversation, the replies still owed and the new exchange fit in MaxChat.
MaxChat == 3

(***************************************************************************)
(* Text helpers: String.prototype.trim, String.prototype.split.            *)
(***************************************************************************)
SP == " "

RECURSIVE TrimStart(_)
TrimStart(s) ==
  IF s = <<>> THEN <<>>
  ELSE IF Head(s) = SP THEN TrimStart(Tail(s)) ELSE s

RECURSIVE TrimEnd(_)
TrimEnd(s) ==
  IF s = <<>> THEN <<>>
  ELSE IF s[Len(s)] = SP THEN TrimEnd(SubSeq(s, 1, Len(s) - 1)) ELSE s

Trim(s) == TrimEnd(TrimStart(s))

\* s.split(sep): always at least one part, empty parts kept.
RECURSIVE SplitAcc(_, _, _)
SplitAcc(s, sep, cur) ==
  IF s = <<>> THEN <<cur>>
  ELSE IF Head(s) = sep THEN <<cur>> \o SplitAcc(Tail(s), sep, <<>>)
  ELSE SplitAcc(Tail(s), sep, Append(cur, Head(s)))

Split(s, sep) == SplitAcc(s, sep, <<>>)

MapTrim(parts) == [i \in 1..Len(parts) |-> Trim(parts[i])]

(***************************************************************************)
(* JSON.stringify of ChatMessage[] and JSON.parse, over atom sequences.    *)
(* Message contents never contain a quote or a backslash here, so string   *)
(* literals need no escaping.                                              *)
(***************************************************************************)
QT == "\""

JSONstringifyString(s) == <<QT>> \o s \o <<QT>>

JSONstringifyMessage(m) ==
  <<"{">> \o JSONstringifyString(<<"role">>) \o <<":">> \o JSONstringifyString(<<m.role>>)
  \o <<",">> \o JSONstringifyString(<<"content">>) \o <<":">> \o JSONstringifyString(m.content)
  \o <<"}">>

RECURSIVE JSONstringifyItems(_)
JSONstringifyItems(c) ==
  IF c = <<>> THEN <<>>
  ELSE IF Len(c) = 1 THEN JSONstringifyMessage(c[1])
  ELSE JSONstringifyMessage(c[1]) \o <<",">> \o JSONstringifyItems(Tail(c))

JSONstringify(c) == <<"[">> \o JSONstringifyItems(c) \o <<"]">>

\* Parse results: [ok, val, rest].  Values: [ty |-> "scalar"|"str"|"arr"|"obj", ...].
ParseFail == [ok |-> FALSE, val |-> [ty |-> "none"], rest |-> <<>>]
ParseOk(v, r) == [ok |-> TRUE, val |-> v, rest |-> r]

ScalarAtoms == {"null", "true", "false", "0"}

\* Reads the characters of a string literal after its opening quote.
RECURSIVE ParseChars(_, _)
ParseChars(s, acc) ==
  IF s = <<>> THEN ParseFail
  ELSE IF Head(s) = QT THEN ParseOk([ty |-> "str", s |-> acc], Tail(s))
  ELSE ParseChars(Tail(s), Append(acc, Head(s)))

RECURSIVE ParseValue(_)
RECURSIVE ParseElements(_, _)
RECURSIVE ParseMembers(_, _, _)

ParseValue(s0) ==
  LET s == TrimStart(s0) IN
  IF s = <<>> THEN ParseFail
  ELSE IF Head(s) \in ScalarAtoms
    THEN ParseOk([ty |-> "scalar", s |-> <<Head(s)>>], TrimStart(Tail(s)))
  ELSE IF Head(s) = QT
    THEN LET r == ParseChars(Tail(s), <<>>) IN
         IF r.ok THEN ParseOk(r.val, TrimStart(r.rest)) ELSE ParseFail
  ELSE IF Head(s) = "["
    THEN LET t == TrimStart(Tail(s)) IN
         IF t # <<>> /\ Head(t) = "]"
           THEN ParseOk([ty |-> "arr", items |-> <<>>], TrimStart(Tail(t)))
           ELSE ParseElements(t, <<>>)
  ELSE IF Head(s) = "{"
    THEN LET t == TrimStart(Tail(s)) IN
         IF t # <<>> /\ Head(t) = "}"
           THEN ParseOk([ty |-> "obj", keys |-> <<>>, vals |-> <<>>], TrimStart(Tail(t)))
           ELSE ParseMembers(t, <<>>, <<>>)
  ELSE ParseFail

ParseElements(s, acc) ==
  LET r == ParseValue(s) IN
  IF ~r.ok \/ r.rest = <<>> THEN ParseFail
  ELSE IF Head(r.rest) = "," THEN ParseElements(Tail(r.rest), Append(acc, r.val))
  ELSE IF Head(r.rest) = "]"
    THEN ParseOk([ty |-> "arr", items |-> Append(acc, r.val)], TrimStart(Tail(r.rest)))
  ELSE ParseFail

ParseMembers(s0, ks, vs) ==
  LET s == TrimStart(s0) IN
  IF s = <<>> \/ Head(s) # QT THEN ParseFail
  ELSE LET k == ParseChars(Tail(s), <<>>) IN
       IF ~k.ok THEN ParseFail
       ELSE LET t == TrimStart(k.rest) IN
            IF t = <<>> \/ Head(t) # ":" THEN ParseFail
            ELSE LET r == ParseValue(Tail(t)) IN
                 IF ~r.ok \/ r.rest = <<>> THEN ParseFail
                 ELSE IF Head(r.rest) = ","
                   THEN ParseMembers(Tail(r.rest), Append(ks, k.val.s), Append(vs, r.val))
                 ELSE IF Head(r.rest) = "}"
                   THEN ParseOk([ty |-> "obj", keys |-> Append(ks, k.val.s),
                                 vals |-> Append(vs, r.val)], TrimStart(Tail(r.rest)))
                 ELSE ParseFail

\* JSON.parse: the whole text must be one value; otherwise it throws.
JSONparse(s) ==
  LET r == ParseValue(s) IN
  IF r.ok /\ r.rest = <<>> THEN r ELSE ParseFail

ArrayIsArray(v) == v.ty = "arr"

\* A parsed {"role": .., "content": ..} object as a ChatMessage.
AsChatMessage(v) == [role |-> v.vals[1].s[1], content |-> v.vals[2].s]

AsChat(v) == [i \in 1..Len(v.items) |-> AsChatMessage(v.items[i])]

(***************************************************************************)
(* Input domains.                                                          *)
(***************************************************************************)
Models == {"openai", "claude", "azure"}

\* Credential field contents: empty, a plain token after a space, a well-formed
\* endpoint|deployment|key triple, and a triple whose deployment is blank.
ApiKeys ==
  { <<>>, <<SP, "k">>, <<"e", "|", "d", "|", "k">>, <<"e", "|", SP, "|", "k">> }

\* Draft texts: empty, whitespace only, and a non-blank text with a trailing space.
Prompts == { <<>>, <<SP>>, <<"a", SP>> }

\* What the network can answer to one request: a success whose reply text has a
\* leading space, and a non-success status without a parseable error body.
Outcomes ==
  { [kind |-> "ok",     text |-> <<SP, "Hi">>],
    [kind |-> "http",   text |-> <<>>] }

NULL == <<"<null>">>         \* the null of signal<string | null>
NoItem == <<"<no item>">>    \* localStorage.getItem returning null

StoredMessage == [role |-> "user", content |-> <<"old">>]

\* What the storage key can hold when the component starts.
InitialStorage ==
  { NoItem,                                  \* key absent
    <<>>,                                    \* empty string
    <<"[">>,                                 \* not JSON
    <<"{", "}">>,                            \* JSON, not an array
    <<"null">>,                              \* JSON, not an array
    <<"[", SP, "]">>,                        \* empty array, not in canonical form
    JSONstringify(<<>>),
    JSONstringify(<<StoredMessage>>),
    <<"[", SP>> \o JSONstringifyMessage(StoredMessage) \o <<SP, "]">> }

(***************************************************************************)
(* State.                                                                  *)
(***************************************************************************)
VARIABLES
  model,     \* signal: selected provider
  apiKey,    \* signal: credential field
  prompt,    \* signal: draft text
  chat,      \* signal: the conversation, a sequence of [role, content]
  loading,   \* signal: loading flag
  error,     \* signal: error slot, NULL or a text
  storage,   \* localStorage[CHAT_STORAGE_KEY], NoItem or a text
  patched,   \* ngOnInit has run: chat.set / chat.update write through
  pending,   \* onSend invocations suspended at their await on fetch
  fetched,   \* the fetch calls made by the task that ran last
  origin,    \* history: origin[i] is the send that appended chat[i], while that
             \* send is suspended or has settled in the last task; 0 otherwise
  clearedSince, \* history: the sends, suspended or settled in the last task, whose
             \* submit was followed by a clearChat
  last       \* history: the handler that ran last and how its adapter call ended

vars == <<model, apiKey, prompt, chat, loading, error, storage, patched,
          pending, fetched, origin, clearedSince, last>>

\* The history kept of the sends in ids only.
Remember(ids) == [i \in 1..Len(origin) |-> IF origin[i] \in ids THEN origin[i] ELSE 0]

PendingIds == {p.sid : p \in pending}

Last(op, settled) == [op |-> op, settled |-> settled]

(***************************************************************************)
(* ngOnInit: load, then patch chat.update and chat.set.                    *)
(***************************************************************************)
\* Lines 32-40: the value chat holds after the load.
LoadedChat(saved) ==
  IF saved = NoItem \/ saved = <<>> THEN <<>>
  ELSE LET r == JSONparse(saved) IN
       IF r.ok /\ ArrayIsArray(r.val) THEN AsChat(r.val) ELSE <<>>

\* Variant: the mutators are patched before the load, so the load writes back.
StorageAfterLoad_Patched(saved, c) ==
  IF saved # NoItem /\ saved # <<>> /\ JSONparse(saved).ok /\ ArrayIsArray(JSONparse(saved).val)
    THEN JSONstringify(c) ELSE saved

\* Line 37 runs the original chat.set: nothing is written.
StorageAfterLoad(saved, c) == saved

\* Variant: chat.update is left unpatched.
StorageAfterUpdate_Unpatched(c) == storage

\* Lines 43-47: the patched chat.update writes the new value through.
StorageAfterUpdate(c) == JSONstringify(c)

\* Variant: chat.set is left unpatched.
StorageAfterSet_Unpatched(c) == storage

\* Lines 50-53: the patched chat.set writes the new value through.
StorageAfterSet(c) == JSONstringify(c)

InitFrom(stored) ==
  /\ model = "openai"
  /\ apiKey = <<>>
  /\ prompt = <<>>
  /\ chat = <<>>
  /\ loading = FALSE
  /\ error = NULL
  /\ storage \in stored
  /\ patched = FALSE
  /\ pending = {}
  /\ fetched = <<>>
  /\ origin = <<>>
  /\ clearedSince = {}
  /\ last = [op |-> "constructor", settled |-> "none"]

Init == InitFrom(InitialStorage)

NgOnInit ==
  /\ ~patched
  /\ chat' = LoadedChat(storage)
  /\ storage' = StorageAfterLoad(storage, chat')
  /\ origin' = [i \in 1..Len(chat') |-> 0]
  /\ clearedSince' = {}
  /\ patched' = TRUE
  /\ last' = Last("ngOnInit", "none")
  /\ fetched' = <<>>
  /\ UNCHANGED <<model, apiKey, prompt, loading, error, pending>>

(***************************************************************************)
(* Selection handlers and clearChat.                                       *)
(***************************************************************************)
OnModelChange(value) ==
  /\ patched
  /\ model' = value
  /\ origin' = Remember(PendingIds)
  /\ clearedSince' = clearedSince \cap PendingIds
  /\ fetched' = <<>>
  /\ error' = NULL
  /\ last' = Last("onModelChange", "none")
  /\ UNCHANGED <<apiKey, prompt, chat, loading, storage, patched, pending>>

OnApiKeyChange(value) ==
  /\ patched
  /\ apiKey' = value
  /\ origin' = Remember(PendingIds)
  /\ clearedSince' = clearedSince \cap PendingIds
  /\ fetched' = <<>>
  /\ error' = NULL
  /\ last' = Last("onApiKeyChange", "none")
  /\ UNCHANGED <<model, prompt, chat, loading, storage, patched, pending>>

\* Variant: the draft handler forgets to clear the error slot.
OnPromptChange_KeepError(value) ==
  /\ patched
  /\ prompt' = value
  /\ origin' = Remember(PendingIds)
  /\ clearedSince' = clearedSince \cap PendingIds
  /\ fetched' = <<>>
  /\ last' = Last("onPromptChange", "none")
  /\ UNCHANGED <<model, apiKey, chat, loading, error, storage, patched, pending>>

OnPromptChange(value) ==
  /\ patched
  /\ prompt' = value
  /\ origin' = Remember(PendingIds)
  /\ clearedSince' = clearedSince \cap PendingIds
  /\ fetched' = <<>>
  /\ error' = NULL
  /\ last' = Last("onPromptChange", "none")
  /\ UNCHANGED <<model, apiKey, chat, loading, storage, patched, pending>>

ClearChat ==
  /\ patched
  /\ chat' = <<>>
  /\ storage' = StorageAfterSet(chat')
  /\ error' = NULL
  /\ origin' = <<>>
  /\ clearedSince' = PendingIds
  /\ last' = Last("clearChat", "none")
  /\ fetched' = <<>>
  /\ UNCHANGED <<model, apiKey, prompt, loading, patched, pending>>

(***************************************************************************)
(* Provider adapters.                                                      *)
(***************************************************************************)
ProviderName(provider) ==
  CASE provider = "openai" -> "OpenAI"
    [] provider = "claude" -> "Claude"
    [] provider = "azure"  -> "Azure OpenAI"

\* The first three parts of the credential: endpoint, deployment, key.
AzureParts(key) == MapTrim(Split(Trim(key), "|"))

\* Variant: only the number of parts is checked.
AzureCredentialOk_CountOnly(key) == Len(AzureParts(key)) >= 3

AzureCredentialOk(key) ==
  LET parts == AzureParts(key) IN
  /\ Len(parts) >= 3
  /\ parts[1] # <<>>
  /\ parts[2] # <<>>
  /\ parts[3] # <<>>

\* The message of the Error an adapter throws before calling fetch, <<>> if none.
CredentialError(provider, key) ==
  IF Trim(key) = <<>>
    THEN <<"API key is required for ", ProviderName(provider), ".">>
  ELSE IF provider = "azure" /\ ~AzureCredentialOk(key)
    THEN <<"For Azure, enter: <endpoint>|<deployment>|<api-key>">>
  ELSE <<>>

SystemMessage == [role |-> "system", content |-> <<"You are a helpful assistant.">>]

\* this.chat().filter(role is user or ai).map({role, content})
History(c) ==
  SelectSeq(c, LAMBDA m : m.role = "user" \/ m.role = "ai")

\* The messages array of the request body; c is this.chat() when the adapter runs.
RequestMessages(provider, c, p) ==
  IF provider = "claude"
    THEN << [role |-> "user", content |-> p] >>
    ELSE <<SystemMessage>> \o History(c) \o << [role |-> "user", content |-> p] >>

\* The fetch call an adapter makes for send sid.
Request(sid, provider, key, c, p) ==
  [sid |-> sid, provider |-> provider, messages |-> RequestMessages(provider, c, p)]

\* What the adapter does with the answer: [ok, text], text being the reply
\* it returns or the message of the Error it throws.
AdapterResult(provider, o) ==
  IF o.kind = "reject" THEN [ok |-> FALSE, text |-> o.text]
  ELSE IF o.kind = "http"
    THEN [ok |-> FALSE,
          text |-> IF o.text # <<>> THEN o.text
                   ELSE <<ProviderName(provider), " API error">>]
  ELSE [ok |-> TRUE,
        text |-> IF Trim(o.text) # <<>> THEN Trim(o.text) ELSE <<"[No response]">>]

(***************************************************************************)
(* onSend.                                                                 *)
(***************************************************************************)
\* Variant: !promptValue, without the trim.
IsBlank_NoTrim(p) == p = <<>>

\* Line 94: !promptValue.trim()
IsBlank(p) == Trim(p) = <<>>

\* Lines 107, 118, 129: the prefix of the error slot.
ErrorPrefix(provider) ==
  CASE provider = "openai" -> "OpenAI: "
    [] provider = "claude" -> "Claude: "
    [] provider = "azure"  -> "Azure: "

ErrorSlot(provider, msg) == <<ErrorPrefix(provider)>> \o msg

UserEntry(p) == [role |-> "user", content |-> p]

AiEntry(text) == [role |-> "ai", content |-> text]

\* Variant: the caught message is appended as it is.
ErrorEntry_Bare(msg) == [role |-> "ai", content |-> msg]

ErrorEntry(msg) == [role |-> "ai", content |-> <<"Error: ">> \o msg]

\* Variant: the flag is reset after the try block, not in a finally.
LoadingAfterSettle_NoFinally(ok) == IF ok THEN FALSE ELSE loading

\* The finally blocks: the loading flag once the adapter call has settled.
LoadingAfterSettle(ok) == FALSE

\* The identity of a new send: the least one no suspended send has.
FreshId ==
  CHOOSE n \in 1..(MaxChat + 1) : n \notin PendingIds /\ \A k \in 1..(n - 1) : k \in PendingIds

OnSend ==
  /\ patched
  /\ IF IsBlank(prompt)
       THEN /\ last' = Last("onSend", "none")
            /\ fetched' = <<>>
            /\ origin' = Remember(PendingIds)
            /\ clearedSince' = clearedSince \cap PendingIds
            /\ UNCHANGED <<model, apiKey, prompt, chat, loading, error, storage,
                           patched, pending>>
       ELSE LET sid  == FreshId
                c1   == Append(chat, UserEntry(prompt))
                cerr == CredentialError(model, apiKey)
            IN
            /\ Len(chat) + Cardinality(pending) + 2 <= MaxChat
            /\ prompt' = <<>>
            /\ clearedSince' = clearedSince \cap PendingIds
            /\ IF cerr # <<>>
                 THEN \* the adapter throws before fetch: caught in this task
                      /\ chat' = Append(c1, ErrorEntry(cerr))
                      /\ origin' = Remember(PendingIds) \o <<sid, sid>>
                      /\ storage' = StorageAfterUpdate(chat')
                      /\ error' = ErrorSlot(model, cerr)
                      /\ loading' = LoadingAfterSettle(FALSE)
                      /\ fetched' = <<>>
                      /\ last' = Last("onSend", "fail")
                      /\ UNCHANGED pending
                 ELSE \* the adapter calls fetch and onSend suspends
                      /\ chat' = c1
                      /\ origin' = Append(Remember(PendingIds), sid)
                      /\ storage' = StorageAfterUpdate(chat')
                      /\ error' = NULL
                      /\ loading' = TRUE
                      /\ fetched' = <<Request(sid, model, apiKey, c1, prompt)>>
                      /\ pending' = pending \cup {[sid |-> sid, provider |-> model]}
                      /\ last' = Last("onSend", "await")
            /\ UNCHANGED <<model, apiKey, patched>>

\* The fetch of a suspended onSend settles with outcome o; onSend resumes.
Settle(p, o) ==
  LET r == AdapterResult(p.provider, o) IN
  /\ p \in pending
  /\ pending' = pending \ {p}
  /\ IF r.ok
       THEN /\ chat' = Append(chat, AiEntry(r.text))
            /\ error' = error
       ELSE /\ chat' = Append(chat, ErrorEntry(r.text))
            /\ error' = ErrorSlot(p.provider, r.text)
  /\ origin' = Append(Remember(PendingIds), p.sid)
  /\ clearedSince' = clearedSince \cap PendingIds
  /\ storage' = StorageAfterUpdate(chat')
  /\ loading' = LoadingAfterSettle(r.ok)
  /\ fetched' = <<>>
  /\ last' = Last("settle", IF r.ok THEN "ok" ELSE "fail")
  /\ UNCHANGED <<model, apiKey, prompt, patched>>

\* The tasks the browser can run, the field values coming from keys and drafts.
NextOver(keys, drafts) ==
  \/ NgOnInit
  \/ \E v \in Models : OnModelChange(v)
  \/ \E v \in keys : OnApiKeyChange(v)
  \/ \E v \in drafts : OnPromptChange(v)
  \/ ClearChat
  \/ OnSend
  \/ \E p \in pending, o \in Outcomes : Settle(p, o)

Next == NextOver(ApiKeys, Prompts)

Spec == Init /\ [][Next]_vars

\* The same program with fewer field values (no stored conversation, an empty
\* or a well-formed credential, a non-blank draft), and every fetch that was
\* issued eventually settling.
FairInit == InitFrom({NoItem})

FairNext == NextOver({<<>>, <<"e", "|", "d", "|", "k">>}, {<<"a", SP>>})

FairSpec ==
  /\ FairInit
  /\ [][FairNext]_vars
  /\ WF_vars(\E p \in pending, o \in Outcomes : Settle(p, o))

(***************************************************************************)
(* Properties.                                                             *)
(***************************************************************************)
AllSpaces(t) == \A i \in 1..Len(t) : t[i] = SP

BeginsWithError(m) == Len(m.content) >= 1 /\ m.content[1] = "Error: "

\* The positions of the messages of send sid with the given role.
EntriesOf(sid, role) == {i \in 1..Len(chat) : origin[i] = sid /\ chat[i].role = role}

\* The send whose adapter call settled in the last task.
SettledSend == origin[Len(origin)]

AdapterSettled == last.settled \in {"ok", "fail"}

\* C1: once ngOnInit has run, every step that mutates the conversation (an
\* append by onSend, an append when a call settles, the replacement by
\* clearChat) leaves the storage key equal to the serialised conversation.
WriteThrough ==
  [][(patched /\ (chat' # chat \/ last'.op = "clearChat"))
       => storage' = JSONstringify(chat')]_vars

\* A call has settled while another send is in flight, and storage holds the
\* serialised conversation.
WriteThroughWitness ==
  /\ last.op = "settle"
  /\ pending # {}
  /\ chat # <<>>
  /\ storage = JSONstringify(chat)

\* C2: the loading flag is true exactly while a request issued by onSend has
\* not settled.
LoadingIffOutstanding == patched => (loading <=> pending # {})

\* C3, as claimed: after a failed send, whatever ran between submit and settle,
\* the conversation holds the user message of that send and exactly one ai
\* message of that send beginning with "Error: ".
FailedSendLeavesBoth ==
  last.settled = "fail" =>
    /\ Cardinality(EntriesOf(SettledSend, "user")) = 1
    /\ Cardinality(EntriesOf(SettledSend, "ai")) = 1
    /\ \A i \in EntriesOf(SettledSend, "ai") : BeginsWithError(chat[i])

\* C3, amended: after a failed send the conversation ends with the one ai
\* message of that send, which begins with "Error: "; the user message of the
\* send is in the conversation, once and before it, exactly when no clearChat
\* ran between submit and settle.
FailedSendLeavesError ==
  last.settled = "fail" =>
    /\ EntriesOf(SettledSend, "ai") = {Len(chat)}
    /\ BeginsWithError(chat[Len(chat)])
    /\ IF SettledSend \in clearedSince
         THEN EntriesOf(SettledSend, "user") = {}
         ELSE Cardinality(EntriesOf(SettledSend, "user")) = 1

\* A fetch failed while another send was in flight and no clearChat came
\* between its submit and its settle: both messages of the send are there.
FailedSendWitness ==
  /\ last.op = "settle"
  /\ last.settled = "fail"
  /\ pending # {}
  /\ SettledSend \notin clearedSince
  /\ Cardinality(EntriesOf(SettledSend, "user")) = 1
  /\ BeginsWithError(chat[Len(chat)])

\* When an adapter call has settled, with a reply or an error, the flag is false.
SettleResetsLoading == [](AdapterSettled => ~loading)

\* Only a task in which an adapter call settles turns the flag from true to false.
OnlySettleResetsLoading ==
  [][(loading /\ ~loading') => last'.settled \in {"ok", "fail"}]_vars

\* C4: when an adapter call settles the loading flag is false; only a settling
\* adapter call turns the flag from true to false; and, every issued fetch
\* settling eventually, a true flag is always followed by a false one.
ReturnsToIdle ==
  /\ SettleResetsLoading
  /\ OnlySettleResetsLoading
  /\ (loading ~> ~loading)

\* A fetch has failed and the controller is idle again.
ReturnsToIdleWitness ==
  /\ last.op = "settle"
  /\ last.settled = "fail"
  /\ ~loading
  /\ pending = {}

\* C5: onSend with an empty or whitespace-only draft changes nothing and
\* issues no request.
BlankSendIsNoOp ==
  [][(last'.op = "onSend" /\ AllSpaces(prompt))
       => /\ UNCHANGED <<chat, storage, prompt, loading, error, model, apiKey, pending>>
          /\ fetched' = <<>>]_vars

\* onSend has run on a whitespace-only draft while a send was in flight.
BlankSendWitness ==
  /\ last = [op |-> "onSend", settled |-> "none"]
  /\ prompt = <<SP>>
  /\ loading
  /\ pending # {}
  /\ chat # <<>>

\* C6: clearChat leaves an empty conversation, an empty error slot and the
\* empty array in storage, and keeps the provider and the credential.
ClearChatResets ==
  [][last'.op = "clearChat"
       => /\ chat' = <<>>
          /\ error' = NULL
          /\ storage' = <<"[", "]">>
          /\ UNCHANGED <<model, apiKey>>]_vars

\* clearChat has run while a send was in flight, with a provider and a
\* credential other than the initial ones.
ClearChatWitness ==
  /\ last.op = "clearChat"
  /\ pending # {}
  /\ chat = <<>>
  /\ storage = <<"[", "]">>
  /\ error = NULL
  /\ model = "azure"
  /\ apiKey = <<"e", "|", "d", "|", "k">>

\* C7: onModelChange, onApiKeyChange and onPromptChange empty the error slot
\* and change nothing but their own field.
EditsClearError ==
  [][last'.op \in {"onModelChange", "onApiKeyChange", "onPromptChange"}
       => /\ error' = NULL
          /\ UNCHANGED <<chat, storage, loading, pending>>
          /\ last'.op = "onModelChange" => UNCHANGED <<apiKey, prompt>>
          /\ last'.op = "onApiKeyChange" => UNCHANGED <<model, prompt>>
          /\ last'.op = "onPromptChange" => UNCHANGED <<model, apiKey>>]_vars

\* The draft has been edited while a send was in flight, after a failed send
\* left its error entry in the conversation; the error slot is empty.
EditsClearErrorWitness ==
  /\ last.op = "onPromptChange"
  /\ error = NULL
  /\ pending # {}
  /\ prompt = <<"a", SP>>
  /\ \E i \in 1..Len(chat) : BeginsWithError(chat[i])

\* The pipe-separated parts of a credential that are not blank.
NonBlankParts(key) ==
  LET parts == Split(key, "|") IN {i \in 1..Len(parts) : ~AllSpaces(parts[i])}

MalformedCredential(provider, key) ==
  \/ AllSpaces(key)
  \/ provider = "azure" /\ Cardinality(NonBlankParts(key)) < 3

\* C8: an onSend with a non-blank draft issues at most one request, and none
\* when the credential is blank or, for azure, has fewer than three non-blank
\* parts: the send then ends as a failed send, with the provider-prefixed
\* error slot and an "Error: " ai message appended.
CredentialChecked ==
  [][(last'.op = "onSend" /\ ~AllSpaces(prompt))
       => /\ Len(fetched') <= 1
          /\ MalformedCredential(model, apiKey)
               => /\ fetched' = <<>>
                  /\ pending' = pending
                  /\ error' # NULL
                  /\ error'[1] = ErrorPrefix(model)
                  /\ Len(chat') = Len(chat) + 2
                  /\ chat'[Len(chat') - 1] = [role |-> "user", content |-> prompt]
                  /\ chat'[Len(chat')].role = "ai"
                  /\ BeginsWithError(chat'[Len(chat')])]_vars

\* A send to azure with a credential whose deployment part is blank has ended
\* as a failed send without a request.
CredentialCheckedWitness ==
  /\ last = [op |-> "onSend", settled |-> "fail"]
  /\ model = "azure"
  /\ apiKey = <<"e", "|", SP, "|", "k">>
  /\ fetched = <<>>
  /\ error # NULL
  /\ error[1] = "Azure: "
  /\ BeginsWithError(chat[Len(chat)])

\* C9: the messages of a request to openai or azure are the system message,
\* the conversation as it was before the prompt was submitted, and the prompt.
RequestMessagesAsClaimed ==
  fetched # <<>> =>
    LET r      == fetched[1]
        before == SubSeq(chat, 1, Len(chat) - 1)
        p      == chat[Len(chat)].content
    IN r.provider \in {"openai", "azure"}
         => r.messages = <<SystemMessage>> \o before \o << [role |-> "user", content |-> p] >>

\* C10: the load takes the conversation from a stored JSON array and leaves
\* it empty otherwise; it sets no error and does not write to storage.
StartupLoad ==
  [][last'.op = "ngOnInit"
       => /\ storage' = storage
          /\ error' = NULL
          /\ \A c \in {<<>>, <<StoredMessage>>} :
               storage = JSONstringify(c) => chat' = c
          /\ storage = <<"[", SP, "]">> => chat' = <<>>
          /\ storage = <<"[", SP>> \o JSONstringifyMessage(StoredMessage) \o <<SP, "]">>
               => chat' = <<StoredMessage>>
          /\ storage \in {NoItem, <<>>, <<"[">>, <<"{", "}">>, <<"null">>}
               => chat' = <<>>]_vars

\* The load has read a stored array that was not in serialised form.
StartupLoadWitness ==
  /\ last.op = "ngOnInit"
  /\ chat = <<StoredMessage>>
  /\ storage # JSONstringify(chat)
  /\ error = NULL

=============================================================================
